---- MODULE Spec2Model ----
(***************************************************************************)
(* Model of scripts/detect.py (CC Proxy Detector v5.2): the fingerprint    *)
(* extraction (probe_once), the three-source fingerprint analysis          *)
(* (analyze), the rate-limit dynamics verifier (verify_ratelimit_dynamic), *)
(* the per-model detection pass (detect_single_model) and the multi-model  *)
(* scan (scan_all_models).                                                 *)
(*                                                                         *)
(* Conventions.  A Fingerprint is a record holding the fields of the       *)
(* dataclass that the analysis reads.  The fields that no decision reads   *)
(* (latency_ms, raw_headers, raw_body, the literal id strings other than   *)
(* the emptiness of tool_id, the header lines kept for display) are left   *)
(* out.  An evidence line is a record [tag, n, fields]: the tag names the  *)
(* f-string of the source, n its number (round index or count) and fields  *)
(* the list it prints.  confidence is kept in hundredths (100 = 1.0).      *)
(***************************************************************************)
EXTENDS Integers, Sequences, FiniteSets, TLC

\* ---------------------------------------------------------------- bounds
MaxFps == 2
MaxRem == 3
MaxShots == 4
MaxRounds == 2
MaxModels == 2

\* ------------------------------------------------------------- variables
VARIABLES
    fingerprints,   \* analyze / detect_single_model: the fingerprint list
    pc,             \* position of the running function
    scores,         \* analyze: local scores
    evidence,       \* analyze: local evidence
    missing_flags,  \* analyze: local missing_flags
    result,         \* the DetectResult under construction / returned
    shots,          \* verify_ratelimit_dynamic: parameter shots
    shot_i,         \* verify_ratelimit_dynamic: loop index i
    samples,        \* verify_ratelimit_dynamic: local samples
    rl_result,      \* verify_ratelimit_dynamic's return value / local rl_result
    rounds,         \* detect_single_model: parameter rounds
    probe_log,      \* probe_once calls issued so far, by probe_type
    models,         \* scan_all_models: parameter models
    model_i,        \* scan_all_models: loop index
    available_models, \* scan_all_models: local available_models
    scan,           \* scan_all_models: the ScanResult
    probe_resp,     \* probe_once: what requests.post meets (resp or the failure)
    probe_fp,       \* probe_once: local fp
    raised          \* the exception propagating out of the running function

vars == <<fingerprints, pc, scores, evidence, missing_flags, result,
          shots, shot_i, samples, rl_result, rounds, probe_log,
          models, model_i, available_models, scan, probe_resp, probe_fp, raised>>

\* ---------------------------------------------------------- data structures
Backends == <<"anthropic", "bedrock", "antigravity">>

ZeroScores == [anthropic |-> 0, bedrock |-> 0, antigravity |-> 0]

Fingerprint(pt) ==
    [ tool_id |-> "", tool_id_source |-> "unknown",
      msg_id_source |-> "unknown",
      model_source |-> "unknown", usage_style |-> "unknown",
      thinking_supported |-> FALSE, thinking_sig_len |-> 0,
      thinking_sig_class |-> "",
      has_service_tier |-> FALSE, has_inference_geo |-> FALSE,
      has_cache_creation_obj |-> FALSE,
      has_aws_headers |-> FALSE, has_anthropic_headers |-> FALSE,
      proxy_platform |-> "",
      ratelimit_input_remaining |-> 0,
      error |-> "", probe_type |-> pt ]

DetectResult(model, nrounds) ==
    [ verdict |-> "unknown", confidence |-> 0, scores |-> ZeroScores,
      evidence |-> <<>>, fingerprints |-> <<>>, model |-> model,
      rounds |-> nrounds, proxy_platform |-> "", ratelimit_dynamic |-> "" ]

Line(tag, n, fields) == [tag |-> tag, n |-> n, fields |-> fields]

\* ------------------------------------------------------------ helpers
AnyOf(s, P(_)) == \E i \in 1..Len(s) : P(s[i])

Count(s, P(_)) == Cardinality({i \in 1..Len(s) : P(s[i])})

\* ------------------------------------------------------------ analyze
\* Variant of ValidFps that forgets the filter on fp.error.
ValidFpsAll(fps) == fps

\* Variant of ValidFps that keeps only the first error-free fingerprint.
ValidFpsFirst(fps) ==
    LET v == SelectSeq(fps, LAMBDA fp : fp.error = "")
    IN  IF Len(v) > 1 THEN <<v[1]>> ELSE v

\* valid_fps = [fp for fp in fingerprints if not fp.error]
ValidFps(fps) == SelectSeq(fps, LAMBDA fp : fp.error = "")

\* platforms = [...]; result.proxy_platform = platforms[0]
FirstPlatform(valid) ==
    LET platforms == SelectSeq(valid, LAMBDA fp : fp.proxy_platform # "")
    IN  IF Len(platforms) > 0 THEN platforms[1].proxy_platform ELSE ""

\* The score each bucket receives from one fingerprint (sections 1..8 of the loop).
FpScores(fp) ==
    [ anthropic |->
          (IF fp.tool_id_source = "anthropic" THEN 5 ELSE 0)
        + (IF fp.msg_id_source = "anthropic" THEN 2 ELSE 0)
        + (IF fp.has_service_tier THEN 3 ELSE 0)
        + (IF fp.has_inference_geo THEN 2 ELSE 0)
        + (IF fp.has_cache_creation_obj THEN 1 ELSE 0)
        + (IF fp.has_anthropic_headers THEN 2 ELSE 0),
      bedrock |->
          (IF fp.tool_id_source = "bedrock" THEN 5 ELSE 0)
        + (IF fp.model_source = "kiro" THEN 8
           ELSE IF fp.model_source = "bedrock" THEN 3 ELSE 0)
        + (IF fp.usage_style = "camelCase" THEN 2 ELSE 0)
        + (IF fp.has_aws_headers THEN 3 ELSE 0),
      antigravity |->
          (IF fp.tool_id_source = "vertex" THEN 5 ELSE 0)
        + (IF fp.thinking_supported /\ fp.thinking_sig_class = "vertex" THEN 5 ELSE 0)
        + (IF fp.msg_id_source = "vertex" THEN 6 ELSE 0) ]

\* The evidence lines one fingerprint appends, in the loop's order; i is the tag [R<i>].
FpEvidence(fp, i) ==
    LET If(c, tag) == IF c THEN <<Line(tag, i, <<>>)>> ELSE <<>>
    IN  (IF fp.tool_id_source = "bedrock" THEN <<Line("tool_tooluse", i, <<>>)>>
         ELSE IF fp.tool_id_source = "anthropic" THEN <<Line("tool_toolu", i, <<>>)>>
         ELSE IF fp.tool_id_source = "vertex" THEN <<Line("tool_toolN", i, <<>>)>>
         ELSE IF fp.tool_id # "" /\ fp.tool_id_source = "rewritten"
              THEN <<Line("tool_rewritten", i, <<>>)>>
         ELSE <<>>)
     \o (IF ~fp.thinking_supported THEN <<>>
         ELSE IF fp.thinking_sig_class = "short" THEN <<Line("sig_short", i, <<>>)>>
         ELSE IF fp.thinking_sig_class = "vertex" THEN <<Line("sig_vertex", i, <<>>)>>
         ELSE IF fp.thinking_sig_class = "normal" THEN <<Line("sig_normal", i, <<>>)>>
         ELSE IF fp.thinking_sig_class = "none" THEN <<Line("sig_none", i, <<>>)>>
         ELSE <<>>)
     \o (IF fp.msg_id_source = "anthropic" THEN <<Line("msg_base62", i, <<>>)>>
         ELSE IF fp.msg_id_source = "antigravity" THEN <<Line("msg_uuid", i, <<>>)>>
         ELSE IF fp.msg_id_source = "vertex" THEN <<Line("msg_req_vrtx", i, <<>>)>>
         ELSE IF fp.msg_id_source = "rewritten" THEN <<Line("msg_rewritten", i, <<>>)>>
         ELSE <<>>)
     \o (IF fp.model_source = "kiro" THEN <<Line("model_kiro", i, <<>>)>>
         ELSE IF fp.model_source = "bedrock" THEN <<Line("model_bedrock", i, <<>>)>>
         ELSE <<>>)
     \o If(fp.has_service_tier, "service_tier")
     \o If(fp.has_inference_geo, "inference_geo")
     \o If(fp.has_cache_creation_obj, "cache_creation")
     \o If(fp.usage_style = "camelCase", "usage_camelCase")
     \o If(fp.has_aws_headers, "aws_headers")
     \o If(fp.has_anthropic_headers, "anthropic_headers")

\* Variant of AddScores that counts a weight once per list, not once per
\* fingerprint.
AddScoresOnce(a, b) ==
    [ anthropic |-> IF a.anthropic > b.anthropic THEN a.anthropic ELSE b.anthropic,
      bedrock |-> IF a.bedrock > b.bedrock THEN a.bedrock ELSE b.bedrock,
      antigravity |-> IF a.antigravity > b.antigravity THEN a.antigravity
                      ELSE b.antigravity ]

\* scores[k] += w, bucket by bucket
AddScores(a, b) ==
    [ anthropic |-> a.anthropic + b.anthropic,
      bedrock |-> a.bedrock + b.bedrock,
      antigravity |-> a.antigravity + b.antigravity ]

\* for i, fp in enumerate(valid_fps): ... (the scoring loop), from index i on
RECURSIVE ScoreLoop(_, _, _)
ScoreLoop(valid, i, acc) ==
    IF i > Len(valid) THEN acc
    ELSE ScoreLoop(valid, i + 1,
            [ scores |-> AddScores(acc.scores, FpScores(valid[i])),
              evidence |-> acc.evidence \o FpEvidence(valid[i], i) ])

\* The frame of analyze: its locals and the result it is building.
\* returned is TRUE after the early return of the all-failed case.
ScoreFingerprints(fps, model) ==
    LET valid == ValidFps(fps)
        res0 == DetectResult(model, Len(fps))
        platform == FirstPlatform(valid)
        ev0 == IF platform # "" THEN <<Line("platform", 0, <<>>)>> ELSE <<>>
        loop == ScoreLoop(valid, 1, [scores |-> ZeroScores, evidence |-> ev0])
    IN  IF Len(valid) = 0
        THEN [ returned |-> TRUE, scores |-> ZeroScores, evidence |-> <<>>,
               missing_flags |-> <<>>,
               result |-> [res0 EXCEPT !.verdict = "unknown",
                                       !.evidence = <<Line("all_failed", 0, <<>>)>>,
                                       !.scores = ZeroScores] ]
        ELSE [ returned |-> FALSE, scores |-> loop.scores, evidence |-> loop.evidence,
               missing_flags |-> <<>>,
               result |-> [res0 EXCEPT !.proxy_platform = platform] ]

\* Variant of CorrectAmbiguity that tests the bedrock score without its tooluse_
\* points and moves them from antigravity to bedrock.
CorrectAmbiguityReversed(fps, f) ==
    LET valid == ValidFps(fps)
        has_kiro_model == AnyOf(valid, LAMBDA fp : fp.model_source = "kiro")
        tooluse_points == 5 * Count(valid, LAMBDA fp : fp.tool_id_source = "bedrock")
        moves == /\ ~has_kiro_model
                 /\ f.scores.antigravity > 0 /\ f.scores.bedrock > 0
                 /\ f.scores.bedrock - tooluse_points >= 4
        sc1 == IF moves
               THEN [f.scores EXCEPT !.antigravity = @ - tooluse_points,
                                     !.bedrock = @ + tooluse_points]
               ELSE f.scores
        ev1 == IF moves THEN <<Line("fix_tooluse", tooluse_points, <<>>)>> ELSE <<>>
        msg_uuid_count == Count(valid, LAMBDA fp : fp.msg_id_source = "antigravity")
        ev2 == IF has_kiro_model /\ msg_uuid_count > 0
               THEN <<Line("fix_msg_uuid", msg_uuid_count, <<>>)>> ELSE <<>>
    IN  [f EXCEPT !.scores = sc1, !.evidence = @ \o ev1 \o ev2]

\* Variant of CorrectAmbiguity that moves the tooluse_ points whether or not a
\* kiro- model was seen.
CorrectAmbiguityIgnoresKiro(fps, f) ==
    LET valid == ValidFps(fps)
        has_kiro_model == AnyOf(valid, LAMBDA fp : fp.model_source = "kiro")
        tooluse_points == 5 * Count(valid, LAMBDA fp : fp.tool_id_source = "bedrock")
        moves == /\ f.scores.antigravity > 0 /\ f.scores.bedrock > 0
                 /\ f.scores.antigravity >= 4
        sc1 == IF moves
               THEN [f.scores EXCEPT !.antigravity = @ + tooluse_points,
                                     !.bedrock = @ - tooluse_points]
               ELSE f.scores
        ev1 == IF moves THEN <<Line("fix_tooluse", tooluse_points, <<>>)>> ELSE <<>>
        msg_uuid_count == Count(valid, LAMBDA fp : fp.msg_id_source = "antigravity")
        ev2 == IF has_kiro_model /\ msg_uuid_count > 0
               THEN <<Line("fix_msg_uuid", msg_uuid_count, <<>>)>> ELSE <<>>
    IN  [f EXCEPT !.scores = sc1, !.evidence = @ \o ev1 \o ev2]

\* Second correction: the tooluse_ points (lines 499-516) and the msg_<UUID>
\* annotation (lines 518-525).
CorrectAmbiguity(fps, f) ==
    LET valid == ValidFps(fps)
        has_kiro_model == AnyOf(valid, LAMBDA fp : fp.model_source = "kiro")
        tooluse_points == 5 * Count(valid, LAMBDA fp : fp.tool_id_source = "bedrock")
        moves == /\ ~has_kiro_model
                 /\ f.scores.antigravity > 0 /\ f.scores.bedrock > 0
                 /\ f.scores.antigravity >= 4
        sc1 == IF moves
               THEN [f.scores EXCEPT !.antigravity = @ + tooluse_points,
                                     !.bedrock = @ - tooluse_points]
               ELSE f.scores
        ev1 == IF moves THEN <<Line("fix_tooluse", tooluse_points, <<>>)>> ELSE <<>>
        msg_uuid_count == Count(valid, LAMBDA fp : fp.msg_id_source = "antigravity")
        ev2 == IF has_kiro_model /\ msg_uuid_count > 0
               THEN <<Line("fix_msg_uuid", msg_uuid_count, <<>>)>> ELSE <<>>
    IN  [f EXCEPT !.scores = sc1, !.evidence = @ \o ev1 \o ev2]

\* Variant of ClampScores that lets a score stay negative.
ClampScoresNone(sc) == sc

\* for k in scores: if scores[k] < 0: scores[k] = 0
ClampScores(sc) ==
    [ anthropic |-> IF sc.anthropic < 0 THEN 0 ELSE sc.anthropic,
      bedrock |-> IF sc.bedrock < 0 THEN 0 ELSE sc.bedrock,
      antigravity |-> IF sc.antigravity < 0 THEN 0 ELSE sc.antigravity ]

\* Variant of AuditMissing that docks whenever the official score is positive,
\* whatever the other two scores are.
AuditMissingAnyBackend(fps, f) ==
    LET valid == ValidFps(fps)
        has_thinking_probe == AnyOf(valid, LAMBDA fp : fp.probe_type = "thinking")
        applies == f.scores.anthropic > 0
        no_geo == ~AnyOf(valid, LAMBDA fp : fp.has_inference_geo)
        no_cache == ~AnyOf(valid, LAMBDA fp : fp.has_cache_creation_obj)
        thinking_fps == SelectSeq(valid, LAMBDA fp : fp.probe_type = "thinking")
        no_sig == has_thinking_probe
                  /\ ~AnyOf(thinking_fps, LAMBDA fp : fp.thinking_sig_len > 0)
        no_hdrs == ~AnyOf(valid, LAMBDA fp : fp.has_anthropic_headers)
        flags == (IF no_geo THEN <<"inference_geo">> ELSE <<>>)
              \o (IF no_cache THEN <<"cache_creation_obj">> ELSE <<>>)
              \o (IF no_sig THEN <<"thinking_signature">> ELSE <<>>)
        dock == (IF no_geo THEN 3 ELSE 0) + (IF no_cache THEN 2 ELSE 0)
              + (IF no_sig THEN 3 ELSE 0)
        ev == (IF no_geo THEN <<Line("missing_inference_geo", 0, <<>>)>> ELSE <<>>)
           \o (IF no_cache THEN <<Line("missing_cache_creation", 0, <<>>)>> ELSE <<>>)
           \o (IF no_sig THEN <<Line("missing_thinking_sig", 0, <<>>)>> ELSE <<>>)
           \o (IF no_hdrs THEN <<Line("ref_no_ratelimit_headers", 0, <<>>)>> ELSE <<>>)
    IN  IF applies
        THEN [f EXCEPT !.missing_flags = flags,
                       !.scores = ClampScores([f.scores EXCEPT !.anthropic = @ - dock]),
                       !.evidence = @ \o ev]
        ELSE [f EXCEPT !.scores = ClampScores(f.scores)]

\* Variant of AuditMissing that also docks 2 for absent rate-limit headers.
AuditMissingDocksHeaders(fps, f) ==
    LET valid == ValidFps(fps)
        has_thinking_probe == AnyOf(valid, LAMBDA fp : fp.probe_type = "thinking")
        applies == f.scores.anthropic > 0 /\ f.scores.bedrock = 0
                   /\ f.scores.antigravity = 0
        no_geo == ~AnyOf(valid, LAMBDA fp : fp.has_inference_geo)
        no_cache == ~AnyOf(valid, LAMBDA fp : fp.has_cache_creation_obj)
        thinking_fps == SelectSeq(valid, LAMBDA fp : fp.probe_type = "thinking")
        no_sig == has_thinking_probe
                  /\ ~AnyOf(thinking_fps, LAMBDA fp : fp.thinking_sig_len > 0)
        no_hdrs == ~AnyOf(valid, LAMBDA fp : fp.has_anthropic_headers)
        flags == (IF no_geo THEN <<"inference_geo">> ELSE <<>>)
              \o (IF no_cache THEN <<"cache_creation_obj">> ELSE <<>>)
              \o (IF no_sig THEN <<"thinking_signature">> ELSE <<>>)
        dock == (IF no_geo THEN 3 ELSE 0) + (IF no_cache THEN 2 ELSE 0)
              + (IF no_sig THEN 3 ELSE 0) + (IF no_hdrs THEN 2 ELSE 0)
        ev == (IF no_geo THEN <<Line("missing_inference_geo", 0, <<>>)>> ELSE <<>>)
           \o (IF no_cache THEN <<Line("missing_cache_creation", 0, <<>>)>> ELSE <<>>)
           \o (IF no_sig THEN <<Line("missing_thinking_sig", 0, <<>>)>> ELSE <<>>)
           \o (IF no_hdrs THEN <<Line("ref_no_ratelimit_headers", 0, <<>>)>> ELSE <<>>)
    IN  IF applies
        THEN [f EXCEPT !.missing_flags = flags,
                       !.scores = ClampScores([f.scores EXCEPT !.anthropic = @ - dock]),
                       !.evidence = @ \o ev]
        ELSE [f EXCEPT !.scores = ClampScores(f.scores)]

\* Third correction: negative evidence of missing fields (lines 535-565),
\* followed by the clamp (lines 567-570).
AuditMissing(fps, f) ==
    LET valid == ValidFps(fps)
        has_thinking_probe == AnyOf(valid, LAMBDA fp : fp.probe_type = "thinking")
        applies == f.scores.anthropic > 0 /\ f.scores.bedrock = 0
                   /\ f.scores.antigravity = 0
        no_geo == ~AnyOf(valid, LAMBDA fp : fp.has_inference_geo)
        no_cache == ~AnyOf(valid, LAMBDA fp : fp.has_cache_creation_obj)
        thinking_fps == SelectSeq(valid, LAMBDA fp : fp.probe_type = "thinking")
        no_sig == has_thinking_probe
                  /\ ~AnyOf(thinking_fps, LAMBDA fp : fp.thinking_sig_len > 0)
        no_hdrs == ~AnyOf(valid, LAMBDA fp : fp.has_anthropic_headers)
        flags == (IF no_geo THEN <<"inference_geo">> ELSE <<>>)
              \o (IF no_cache THEN <<"cache_creation_obj">> ELSE <<>>)
              \o (IF no_sig THEN <<"thinking_signature">> ELSE <<>>)
        dock == (IF no_geo THEN 3 ELSE 0) + (IF no_cache THEN 2 ELSE 0)
              + (IF no_sig THEN 3 ELSE 0)
        ev == (IF no_geo THEN <<Line("missing_inference_geo", 0, <<>>)>> ELSE <<>>)
           \o (IF no_cache THEN <<Line("missing_cache_creation", 0, <<>>)>> ELSE <<>>)
           \o (IF no_sig THEN <<Line("missing_thinking_sig", 0, <<>>)>> ELSE <<>>)
           \o (IF no_hdrs THEN <<Line("ref_no_ratelimit_headers", 0, <<>>)>> ELSE <<>>)
    IN  IF applies
        THEN [f EXCEPT !.missing_flags = flags,
                       !.scores = ClampScores([f.scores EXCEPT !.anthropic = @ - dock]),
                       !.evidence = @ \o ev]
        ELSE [f EXCEPT !.scores = ClampScores(f.scores)]

\* winner = max(scores, key=scores.get): the first key, in the dict's insertion
\* order anthropic, bedrock, antigravity, whose score is maximal.
Winner(sc) ==
    IF sc.anthropic >= sc.bedrock /\ sc.anthropic >= sc.antigravity THEN "anthropic"
    ELSE IF sc.bedrock >= sc.antigravity THEN "bedrock"
    ELSE "antigravity"

\* round(w / total, 2) in hundredths: the nearest hundredth, an exact half going to
\* the even one (Python rounds the correctly rounded quotient half-to-even).
Round2(w, total) ==
    LET q == (100 * w) \div total
        r2 == 2 * ((100 * w) % total)
    IN  IF r2 > total THEN q + 1
        ELSE IF r2 < total THEN q
        ELSE IF q % 2 = 0 THEN q ELSE q + 1

\* Variant of IsSuspicious that forces the verdict with a single docked field.
IsSuspiciousOneFlag(sc, flags) ==
    LET total == sc.anthropic + sc.bedrock + sc.antigravity
    IN  IF total = 0 THEN Len(flags) > 0
        ELSE Winner(sc) = "anthropic" /\ Len(flags) >= 1

\* Variant of IsSuspicious that forgets the case of total zero.
IsSuspiciousNoZeroCase(sc, flags) ==
    Winner(sc) = "anthropic" /\ Len(flags) >= 2

\* Variant of IsSuspicious that needs all three fields docked.
IsSuspiciousThree(sc, flags) ==
    LET total == sc.anthropic + sc.bedrock + sc.antigravity
    IN  IF total = 0 THEN Len(flags) > 0
        ELSE Winner(sc) = "anthropic" /\ Len(flags) >= 3

\* suspicious (lines 575-594): set at total zero with a docked field, or when the
\* winner is anthropic and two or more fields were docked.
IsSuspicious(sc, flags) ==
    LET total == sc.anthropic + sc.bedrock + sc.antigravity
    IN  IF total = 0 THEN Len(flags) > 0
        ELSE Winner(sc) = "anthropic" /\ Len(flags) >= 2

\* The verdict (lines 572-607).
ResolveVerdict(fps, f) ==
    LET sc == f.scores
        total == sc.anthropic + sc.bedrock + sc.antigravity
        suspicious == IsSuspicious(sc, f.missing_flags)
        verdict0 == IF total = 0
                    THEN (IF Len(f.missing_flags) > 0 THEN "anthropic" ELSE "unknown")
                    ELSE Winner(sc)
        conf == IF total = 0 THEN 0 ELSE Round2(sc[Winner(sc)], total)
        ev0 == IF total = 0
               THEN (IF Len(f.missing_flags) > 0
                     THEN <<Line("cancelled_by_missing", 0, <<>>)>>
                     ELSE <<Line("no_signal", 0, <<>>)>>)
               ELSE <<>>
        ev1 == IF suspicious
               THEN << Line("suspicious_missing", Len(f.missing_flags), f.missing_flags),
                       Line("suspicious_rewrite", 0, <<>>) >>
               ELSE <<>>
        ev == f.evidence \o ev0 \o ev1
    IN  [f EXCEPT !.returned = TRUE,
                  !.evidence = ev,
                  !.result = [@ EXCEPT !.scores = sc,
                                       !.verdict = IF suspicious THEN "suspicious"
                                                   ELSE verdict0,
                                       !.confidence = conf,
                                       !.evidence = ev,
                                       !.fingerprints = fps]]

\* analyze(fingerprints, base_url, model): the frame at its return.
Analyze(fps, model) ==
    LET f0 == ScoreFingerprints(fps, model)
    IN  IF f0.returned THEN f0
        ELSE ResolveVerdict(fps, AuditMissing(fps, CorrectAmbiguity(fps, f0)))

\* ------------------------------------------------- fingerprints of the model
\* classify_thinking_sig(sig); a signature is given by its length and by whether
\* it starts with "claude#".
ClassifyThinkingSig(len, claude_prefix) ==
    IF len = 0 THEN "none"
    ELSE IF len < 100 THEN "short"
    ELSE IF claude_prefix THEN "vertex"
    ELSE "normal"

\* What probe_once records for a thinking block with that signature.
WithThinking(fp, len, claude_prefix) ==
    [fp EXCEPT !.thinking_supported = TRUE, !.thinking_sig_len = len,
               !.thinking_sig_class = ClassifyThinkingSig(len, claude_prefix)]

WithToolId(fp, src) == [fp EXCEPT !.tool_id = "id", !.tool_id_source = src]

\* Fingerprints with one feature each, as a "tool" probe returns them.
SingleFeatureFps ==
    LET b == Fingerprint("tool")
    IN  {b}
        \cup {WithToolId(b, s) : s \in {"anthropic", "bedrock", "vertex", "rewritten"}}
        \cup {[b EXCEPT !.msg_id_source = s] :
                  s \in {"anthropic", "antigravity", "vertex", "rewritten"}}
        \cup {[b EXCEPT !.model_source = s] : s \in {"anthropic", "kiro", "bedrock"}}
        \cup {[b EXCEPT !.usage_style = s] : s \in {"camelCase", "snake_case"}}
        \cup { [b EXCEPT !.has_service_tier = TRUE],
               [b EXCEPT !.has_inference_geo = TRUE],
               [b EXCEPT !.has_cache_creation_obj = TRUE],
               [b EXCEPT !.has_aws_headers = TRUE],
               [b EXCEPT !.has_anthropic_headers = TRUE],
               [b EXCEPT !.proxy_platform = "Aidistri"] }

\* Responses that look official: toolu_ and msg_<base62>, with any subset of
\* the official-only usage fields.
OfficialFps ==
    LET b == [WithToolId(Fingerprint("tool"), "anthropic") EXCEPT
                 !.msg_id_source = "anthropic", !.model_source = "anthropic",
                 !.usage_style = "snake_case"]
    IN  {[b EXCEPT !.has_service_tier = t, !.has_inference_geo = g,
                   !.has_cache_creation_obj = c] : t, g, c \in BOOLEAN}

\* Responses of the two other backends; the last one comes through a relay that
\* adds service_tier and rate-limit headers to a tooluse_ response.
CloudFps ==
    LET b == Fingerprint("tool")
    IN  { [WithToolId(b, "bedrock") EXCEPT !.msg_id_source = "antigravity",
              !.model_source = "kiro", !.usage_style = "camelCase"],
          [WithToolId(b, "bedrock") EXCEPT !.msg_id_source = "vertex",
              !.model_source = "anthropic", !.usage_style = "snake_case"],
          [WithToolId(b, "bedrock") EXCEPT !.has_service_tier = TRUE,
              !.has_anthropic_headers = TRUE] }

\* What a "thinking" probe returns: no thinking block, or one with an empty, a
\* short, a claude# or a normal signature; and official-looking ones.
ThinkingFps ==
    LET b == Fingerprint("thinking")
        o == [b EXCEPT !.msg_id_source = "anthropic", !.model_source = "anthropic",
                       !.has_service_tier = TRUE]
    IN  { b, WithThinking(b, 0, FALSE), WithThinking(b, 50, FALSE),
          WithThinking(b, 50, TRUE), WithThinking(b, 200, TRUE),
          WithThinking(b, 200, FALSE),
          o, WithThinking(o, 0, FALSE),
          [WithThinking(o, 200, FALSE) EXCEPT !.has_inference_geo = TRUE,
                                              !.has_cache_creation_obj = TRUE],
          [WithToolId(b, "anthropic") EXCEPT !.has_inference_geo = TRUE,
                                             !.has_cache_creation_obj = TRUE] }

\* Failed probes: a transport or HTTP error leaves every field at its default; a
\* body that is not JSON is found after the headers were recorded.
ErrorFps ==
    { [Fingerprint("tool") EXCEPT !.error = "HTTP 500"],
      [Fingerprint("thinking") EXCEPT !.error = "timeout"],
      [Fingerprint("tool") EXCEPT !.error = "not JSON", !.has_anthropic_headers = TRUE,
                                  !.has_aws_headers = TRUE,
                                  !.ratelimit_input_remaining = 1] }

FpUniverse == SingleFeatureFps \cup OfficialFps \cup CloudFps \cup ThinkingFps
              \cup ErrorFps

SeqsUpTo(S, n) == UNION {[1..k -> S] : k \in 0..n}

\* ------------------------------------------------------------- probe_once
\* What requests.post(url, ...) meets.  transport is "error" when it raises a
\* RequestException.  The headers are given by what the header loop reads: aws (a
\* key holding one of AWS_HEADER_KEYWORDS), ratelimit (the header
\* anthropic-ratelimit-input-tokens-remaining: "absent", "int" with the value
\* remaining, or "text" that int() rejects), platform (detect_proxy_platform).
\* The body is its JSON value: json is "invalid" when resp.json() raises
\* ValueError, else the type of the decoded value; each member is given by its
\* JSON type and, for a string, by the class of strings the code tells apart.
NoSignature == [t |-> "absent", len |-> 0, claude |-> FALSE]

Block(type) == [t |-> "object", type |-> type, id |-> "absent", signature |-> NoSignature]

ToolUseBlock(id) == [Block("tool_use") EXCEPT !.id = id]

ThinkingBlock(t, len, claude) ==
    [Block("thinking") EXCEPT !.signature = [t |-> t, len |-> len, claude |-> claude]]

NoUsage == [ t |-> "absent", style |-> "none", service_tier |-> FALSE,
             inference_geo |-> FALSE, cache_creation |-> "absent" ]

Body(json) ==
    [ json |-> json, content |-> [t |-> "absent", blocks |-> <<>>],
      id |-> "absent", model |-> "absent", usage |-> NoUsage ]

Response(transport, status) ==
    [ transport |-> transport, status |-> status, aws |-> FALSE,
      ratelimit |-> "absent", remaining |-> 0, platform |-> "",
      body |-> Body("invalid") ]

NoResponse == Response("none", 0)

\* The outcome of a stretch of probe_once: the fingerprint so far, the exception
\* that left the function ("" if none), and whether a return statement was met.
Step(f, exc, ret) == [fp |-> f, raised |-> exc, returned |-> ret]

\* lines 288-298: the request, the transport failure, the status check
SendStep(f, r) ==
    IF r.transport = "error" THEN Step([f EXCEPT !.error = "RequestException"], "", TRUE)
    ELSE IF r.status # 200 THEN Step([f EXCEPT !.error = "HTTP 500"], "", TRUE)
    ELSE Step(f, "", FALSE)

\* lines 300-320: the header loop and detect_proxy_platform
HeadersStep(f, r) ==
    Step([f EXCEPT !.has_aws_headers = r.aws,
                   !.has_anthropic_headers = (r.ratelimit # "absent"),
                   !.ratelimit_input_remaining =
                        IF r.ratelimit = "int" THEN r.remaining ELSE @,
                   !.proxy_platform = r.platform], "", FALSE)

\* lines 323-327: body = resp.json(), ValueError caught
JsonStep(f, r) ==
    IF r.body.json = "invalid" THEN Step([f EXCEPT !.error = "not JSON"], "", TRUE)
    ELSE Step(f, "", FALSE)

\* for block in ...: if block.get("type") == type: ...; break -- the index of the
\* first block of that type (0 if none); block.get fails on a block that is not an
\* object and is met before it.
RECURSIVE FindBlock(_, _, _)
FindBlock(blocks, type, i) ==
    IF i > Len(blocks) THEN [at |-> 0, raised |-> ""]
    ELSE IF blocks[i].t # "object" THEN [at |-> 0, raised |-> "AttributeError"]
    ELSE IF blocks[i].type = type THEN [at |-> i, raised |-> ""]
    ELSE FindBlock(blocks, type, i + 1)

\* body.get("content", []) and the start of the iteration over it: body.get needs an
\* object, the for loop an iterable, block.get an object (a string iterates over
\* its characters).
ContentBlocks(r) ==
    IF r.body.json # "object" THEN [blocks |-> <<>>, raised |-> "AttributeError"]
    ELSE IF r.body.content.t = "absent" THEN [blocks |-> <<>>, raised |-> ""]
    ELSE IF r.body.content.t = "null" THEN [blocks |-> <<>>, raised |-> "TypeError"]
    ELSE IF r.body.content.t = "string" THEN [blocks |-> <<>>, raised |-> "AttributeError"]
    ELSE [blocks |-> r.body.content.blocks, raised |-> ""]

\* lines 333-344: the id of the first tool_use block
ToolIdStep(f, r) ==
    LET c == ContentBlocks(r)
        found == FindBlock(c.blocks, "tool_use", 1)
        id == c.blocks[found.at].id
    IN  IF c.raised # "" THEN Step(f, c.raised, FALSE)
        ELSE IF found.raised # "" THEN Step(f, found.raised, FALSE)
        ELSE IF found.at = 0 THEN Step(f, "", FALSE)
        ELSE IF id \in {"number", "null"} THEN Step(f, "AttributeError", FALSE)
        ELSE Step([f EXCEPT !.tool_id = IF id = "absent" THEN "" ELSE "id",
                            !.tool_id_source =
                                IF id = "tooluse_" THEN "bedrock"
                                ELSE IF id = "toolu_" THEN "anthropic"
                                ELSE IF id = "tool_N" THEN "vertex"
                                ELSE "rewritten"], "", FALSE)

\* lines 347-355: the signature of the first thinking block
ThinkingStep(f, r) ==
    LET c == ContentBlocks(r)
        found == FindBlock(c.blocks, "thinking", 1)
        sig == c.blocks[found.at].signature
    IN  IF c.raised # "" THEN Step(f, c.raised, FALSE)
        ELSE IF found.raised # "" THEN Step(f, found.raised, FALSE)
        ELSE IF found.at = 0 THEN Step(f, "", FALSE)
        ELSE IF sig.t \in {"number", "null"} THEN Step(f, "TypeError", FALSE)
        ELSE IF sig.t = "absent" THEN Step(WithThinking(f, 0, FALSE), "", FALSE)
        ELSE Step(WithThinking(f, sig.len, sig.claude), "", FALSE)

\* classify_msg_id(msg_id), its first component; a number has no startswith
ClassifyMsgId(id) ==
    IF id \in {"absent", "null"} THEN [source |-> "unknown", raised |-> ""]
    ELSE IF id = "number" THEN [source |-> "unknown", raised |-> "AttributeError"]
    ELSE IF id = "req_vrtx" THEN [source |-> "vertex", raised |-> ""]
    ELSE IF id = "msg_uuid" THEN [source |-> "antigravity", raised |-> ""]
    ELSE IF id = "base62" THEN [source |-> "anthropic", raised |-> ""]
    ELSE [source |-> "rewritten", raised |-> ""]

\* lines 358-359
MsgIdStep(f, r) ==
    LET c == ClassifyMsgId(r.body.id)
    IN  IF c.raised # "" THEN Step(f, c.raised, FALSE)
        ELSE Step([f EXCEPT !.msg_id_source = c.source], "", FALSE)

\* lines 362-368
ModelStep(f, r) ==
    LET m == r.body.model
    IN  IF m \in {"number", "null"} THEN Step(f, "AttributeError", FALSE)
        ELSE Step([f EXCEPT !.model_source =
                        IF m = "kiro" THEN "kiro"
                        ELSE IF m = "bedrock" THEN "bedrock"
                        ELSE IF m = "claude" THEN "anthropic"
                        ELSE @], "", FALSE)

\* lines 371-389: "inputTokens" in usage needs a container, usage.get an object
UsageStep(f, r) ==
    LET u == r.body.usage
    IN  IF u.t \in {"null", "number"} THEN Step(f, "TypeError", FALSE)
        ELSE IF u.t = "array" THEN Step(f, "AttributeError", FALSE)
        ELSE IF u.t = "absent" THEN Step(f, "", TRUE)
        ELSE Step([f EXCEPT !.usage_style = IF u.style = "none" THEN @ ELSE u.style,
                            !.has_service_tier = u.service_tier,
                            !.has_inference_geo = u.inference_geo,
                            !.has_cache_creation_obj = (u.cache_creation = "object")],
                  "", TRUE)

\* Runs the stretches in order until one returns or raises.
RECURSIVE RunSteps(_, _, _)
RunSteps(st, r, i) ==
    IF st.returned \/ st.raised # "" \/ i > 8 THEN st
    ELSE RunSteps(
            CASE i = 1 -> SendStep(st.fp, r)
              [] i = 2 -> HeadersStep(st.fp, r)
              [] i = 3 -> JsonStep(st.fp, r)
              [] i = 4 -> ToolIdStep(st.fp, r)
              [] i = 5 -> ThinkingStep(st.fp, r)
              [] i = 6 -> MsgIdStep(st.fp, r)
              [] i = 7 -> ModelStep(st.fp, r)
              [] i = 8 -> UsageStep(st.fp, r), r, i + 1)

\* probe_once(base_url, api_key, model, probe_type) against the response r: the
\* Fingerprint it returns, or the exception it raises.
ProbeOnce(r, probe_type) == RunSteps(Step(Fingerprint(probe_type), "", FALSE), r, 1)

\* The responses of the model.
HeaderSets ==
    {[Response("ok", 200) EXCEPT !.aws = a, !.ratelimit = rl[1], !.remaining = rl[2],
                                 !.platform = p] :
        a \in BOOLEAN, p \in {"", "Aidistri"},
        rl \in {<<"absent", 0>>, <<"text", 0>>} \cup {<<"int", n>> : n \in 0..MaxRem}}

Blocks ==
    {Block("text"), [Block("text") EXCEPT !.t = "string"]}
    \cup {ToolUseBlock(id) : id \in {"absent", "tooluse_", "toolu_", "tool_N", "other",
                                     "number", "null"}}
    \cup {ThinkingBlock("absent", 0, FALSE), ThinkingBlock("string", 0, FALSE),
          ThinkingBlock("string", 50, FALSE), ThinkingBlock("string", 200, TRUE),
          ThinkingBlock("string", 200, FALSE), ThinkingBlock("number", 0, FALSE),
          ThinkingBlock("null", 0, FALSE)}

Usages ==
    {[NoUsage EXCEPT !.t = t] : t \in {"absent", "null", "number", "array"}}
    \cup {[ t |-> "object", style |-> s, service_tier |-> st, inference_geo |-> g,
            cache_creation |-> c ] :
            s \in {"none", "camelCase", "snake_case"}, st \in BOOLEAN, g \in BOOLEAN,
            c \in {"absent", "object", "number"}}

Bodies ==
    LET o == Body("object")
    IN  {Body(j) : j \in {"invalid", "object", "array", "string", "null"}}
        \cup {[o EXCEPT !.content = [t |-> t, blocks |-> <<>>]] : t \in {"null", "string"}}
        \cup {[o EXCEPT !.content = [t |-> "array", blocks |-> b]] :
                  b \in SeqsUpTo(Blocks, MaxFps)}
        \cup {[o EXCEPT !.id = i] : i \in {"base62", "msg_uuid", "req_vrtx", "uuid",
                                            "other", "number", "null"}}
        \cup {[o EXCEPT !.model = m] : m \in {"kiro", "bedrock", "claude", "number",
                                               "null"}}
        \cup {[o EXCEPT !.usage = u] : u \in Usages}

Responses ==
    {Response("error", 0), Response("ok", 500),
     [Response("ok", 500) EXCEPT !.aws = TRUE, !.ratelimit = "int", !.remaining = 1]}
    \cup HeaderSets
    \cup {[Response("ok", 200) EXCEPT !.body = b] : b \in Bodies}
    \cup {[Response("ok", 200) EXCEPT !.body = b, !.ratelimit = "int", !.remaining = 1] :
              b \in {Body(j) : j \in {"object", "array"}}}

ProbeTypes == {"tool", "thinking", "simple"}

ProbeIdle == /\ probe_resp = NoResponse /\ probe_fp = Fingerprint("") /\ raised = ""

\* ------------------------------------------------ values of unused variables
RlNone == [verdict |-> "None", samples |-> <<>>, detail |-> Line("", 0, <<>>)]

ScanResult ==
    [ proxy_platform |-> "", model_results |-> <<>>, summary |-> <<>>,
      is_mixed |-> FALSE ]

NoFrame == /\ scores = ZeroScores /\ evidence = <<>> /\ missing_flags = <<>>

\* ------------------------------------------- specification of analyze alone
RlIdle == /\ shots = 0 /\ shot_i = 0 /\ samples = <<>> /\ rl_result = RlNone

ScanIdle == /\ models = <<>> /\ model_i = 0 /\ available_models = <<>>
            /\ scan = ScanResult

InitAnalyze ==
    /\ fingerprints \in SeqsUpTo(FpUniverse, MaxFps)
    /\ pc = "analyze"
    /\ NoFrame
    /\ result = DetectResult("", 0)
    /\ RlIdle /\ ScanIdle
    /\ rounds = 0 /\ probe_log = <<>>
    /\ ProbeIdle

SetFrame(f) ==
    /\ scores' = f.scores
    /\ evidence' = f.evidence
    /\ missing_flags' = f.missing_flags
    /\ result' = f.result

Frame == [ returned |-> FALSE, scores |-> scores, evidence |-> evidence,
           missing_flags |-> missing_flags, result |-> result ]

AnalyzeOthers == UNCHANGED <<fingerprints, shots, shot_i, samples, rl_result, rounds,
                             probe_log, models, model_i, available_models, scan,
                             probe_resp, probe_fp, raised>>

\* lines 397-497: filter, early return, platform, scoring loop
AnalyzeScore ==
    /\ pc = "analyze"
    /\ LET f == ScoreFingerprints(fingerprints, "")
       IN  /\ SetFrame(f)
           /\ pc' = IF f.returned THEN "done" ELSE "scored"
    /\ AnalyzeOthers

\* lines 499-525
AnalyzeCorrect ==
    /\ pc = "scored"
    /\ SetFrame(CorrectAmbiguity(fingerprints, Frame))
    /\ pc' = "corrected"
    /\ AnalyzeOthers

\* lines 527-570
AnalyzeAudit ==
    /\ pc = "corrected"
    /\ SetFrame(AuditMissing(fingerprints, Frame))
    /\ pc' = "audited"
    /\ AnalyzeOthers

\* lines 572-607
AnalyzeResolve ==
    /\ pc = "audited"
    /\ SetFrame(ResolveVerdict(fingerprints, Frame))
    /\ pc' = "done"
    /\ AnalyzeOthers

NextAnalyze == AnalyzeScore \/ AnalyzeCorrect \/ AnalyzeAudit \/ AnalyzeResolve

SpecAnalyze == InitAnalyze /\ [][NextAnalyze]_vars

\* ------------------------------------------------ verify_ratelimit_dynamic
\* What probe_once(..., "simple") can return to the verifier: a failed probe, or a
\* successful one with the remaining value of its rate-limit header (0 when the
\* header is absent).  The reset timestamp is sampled with it and never read.
ShotFps ==
    {[Fingerprint("simple") EXCEPT !.error = "timeout"]}
    \cup {[Fingerprint("simple") EXCEPT !.ratelimit_input_remaining = r,
                                         !.has_anthropic_headers = (r > 0)] :
              r \in 0..MaxRem}

\* One iteration of the loop (lines 833-844): a failed shot is skipped.
AppendSample(smp, fp) ==
    IF fp.error # "" THEN smp ELSE Append(smp, fp.ratelimit_input_remaining)

\* Variant of ClassifyRemaining whose monotone test is strict (ties not allowed).
ClassifyRemainingStrict(smp) ==
    LET n == Len(smp)
        all_same == Cardinality({smp[i] : i \in 1..n}) = 1
        monotone_dec == \A i \in 1..(n - 1) : smp[i] > smp[i + 1]
        total_drop == smp[1] - smp[n]
    IN  IF n < 2
        THEN [verdict |-> "unavailable", samples |-> smp,
              detail |-> Line("insufficient", 0, <<>>)]
        ELSE IF all_same
        THEN [verdict |-> "static", samples |-> smp,
              detail |-> Line("fixed", smp[1], <<>>)]
        ELSE IF monotone_dec /\ total_drop > 0
        THEN [verdict |-> "dynamic", samples |-> smp,
              detail |-> Line("decreasing", total_drop, <<smp[1], smp[n]>>)]
        ELSE [verdict |-> "dynamic", samples |-> smp,
              detail |-> Line("non_monotonic", 0, smp)]

\* Lines 846-871: the verdict and its detail from the sampled remaining values.
ClassifyRemaining(smp) ==
    LET n == Len(smp)
        all_same == Cardinality({smp[i] : i \in 1..n}) = 1
        monotone_dec == \A i \in 1..(n - 1) : smp[i] >= smp[i + 1]
        total_drop == smp[1] - smp[n]
    IN  IF n < 2
        THEN [verdict |-> "unavailable", samples |-> smp,
              detail |-> Line("insufficient", 0, <<>>)]
        ELSE IF all_same
        THEN [verdict |-> "static", samples |-> smp,
              detail |-> Line("fixed", smp[1], <<>>)]
        ELSE IF monotone_dec /\ total_drop > 0
        THEN [verdict |-> "dynamic", samples |-> smp,
              detail |-> Line("decreasing", total_drop, <<smp[1], smp[n]>>)]
        ELSE [verdict |-> "dynamic", samples |-> smp,
              detail |-> Line("non_monotonic", 0, smp)]

RECURSIVE CollectSamples(_, _, _)
CollectSamples(shotfps, i, smp) ==
    IF i > Len(shotfps) THEN smp
    ELSE CollectSamples(shotfps, i + 1, AppendSample(smp, shotfps[i]))

\* The whole call, given what each of its probes returns.
VerifyRatelimitDynamic(shotfps) == ClassifyRemaining(CollectSamples(shotfps, 1, <<>>))

DetectIdle == /\ fingerprints = <<>> /\ rounds = 0 /\ NoFrame
              /\ result = DetectResult("", 0)

InitRL ==
    /\ shots \in 1..MaxShots
    /\ shot_i = 0
    /\ samples = <<>>
    /\ rl_result = RlNone
    /\ pc = "rl_loop"
    /\ probe_log = <<>>
    /\ DetectIdle /\ ScanIdle /\ ProbeIdle

RLOthers == UNCHANGED <<fingerprints, scores, evidence, missing_flags, result, shots,
                        rounds, models, model_i, available_models, scan,
                        probe_resp, probe_fp, raised>>

\* for i in range(shots): fp = probe_once(...); ...  (one iteration)
RLShotFrom(S) ==
    /\ pc = "rl_loop"
    /\ shot_i < shots
    /\ \E fp \in S :
          /\ samples' = AppendSample(samples, fp)
          /\ probe_log' = Append(probe_log, fp)
    /\ shot_i' = shot_i + 1
    /\ UNCHANGED <<pc, rl_result>>
    /\ RLOthers

RLShot == RLShotFrom(ShotFps)

\* after the loop: classify and return
RLClassify ==
    /\ pc = "rl_loop"
    /\ shot_i = shots
    /\ rl_result' = ClassifyRemaining(samples)
    /\ pc' = "rl_return"
    /\ UNCHANGED <<shot_i, samples, probe_log>>
    /\ RLOthers

NextRL == RLShot \/ RLClassify

SpecRL == InitRL /\ [][NextRL]_vars

\* ---------------------------------------------------- detect_single_model
\* shots=4 in the call of verify_ratelimit_dynamic
DetectShots == 4

\* Variant of HasRl that also counts the failed probes.
HasRlAnyFp(fps) == AnyOf(fps, LAMBDA fp : fp.ratelimit_input_remaining > 0)

\* has_rl = any(fp.ratelimit_input_remaining > 0 for fp in fingerprints if not fp.error)
HasRl(fps) == AnyOf(ValidFps(fps), LAMBDA fp : fp.ratelimit_input_remaining > 0)

\* Variant of InjectRatelimit that downgrades without saying why.
InjectRatelimitSilent(res, rl) ==
    IF rl = RlNone THEN res
    ELSE LET r1 == [res EXCEPT !.ratelimit_dynamic = rl.verdict,
                               !.evidence = Append(@, Line("rl_verify", 0,
                                                           <<rl.detail.tag>>))]
         IN  IF rl.verdict = "static" /\ r1.verdict = "anthropic"
             THEN [r1 EXCEPT !.verdict = "suspicious"]
             ELSE r1

\* Variant of InjectRatelimit that records the verifier's verdict and leaves the
\* verdict of the analysis alone.
InjectRatelimitKeepsVerdict(res, rl) ==
    IF rl = RlNone THEN res
    ELSE LET r1 == [res EXCEPT !.ratelimit_dynamic = rl.verdict,
                               !.evidence = Append(@, Line("rl_verify", 0,
                                                           <<rl.detail.tag>>))]
         IN  IF rl.verdict = "static" /\ r1.verdict = "suspicious"
             THEN [r1 EXCEPT !.evidence = Append(@, Line("rl_static_confirms", 0, <<>>))]
             ELSE r1

\* Lines 933-945: the verifier's verdict injected into the result of analyze.
InjectRatelimit(res, rl) ==
    IF rl = RlNone THEN res
    ELSE LET r1 == [res EXCEPT !.ratelimit_dynamic = rl.verdict,
                               !.evidence = Append(@, Line("rl_verify", 0,
                                                           <<rl.detail.tag>>))]
         IN  IF rl.verdict # "static" THEN r1
             ELSE IF r1.verdict = "anthropic"
             THEN [r1 EXCEPT !.verdict = "suspicious",
                             !.evidence = Append(@, Line("rl_static_forged", 0, <<>>))]
             ELSE IF r1.verdict = "suspicious"
             THEN [r1 EXCEPT !.evidence = Append(@, Line("rl_static_confirms", 0, <<>>))]
             ELSE r1

\* The whole call, given what its probes return: fps from the tool probes and the
\* thinking probe, shotfps from the verifier's probes when it runs.
DetectSingleModel(model, fps, shotfps) ==
    LET rl == IF HasRl(fps) THEN VerifyRatelimitDynamic(shotfps) ELSE RlNone
    IN  InjectRatelimit(Analyze(fps, model).result, rl)

\* A rate-limit header with a positive remaining value is an official rate-limit
\* header, so probe_once sets has_anthropic_headers with it.
WithRemaining(fp, r) ==
    [fp EXCEPT !.ratelimit_input_remaining = r, !.has_anthropic_headers = TRUE]

\* What the tool probes of a detection pass return in this model.
DetectToolFps ==
    LET full == [WithToolId(Fingerprint("tool"), "anthropic") EXCEPT
                    !.msg_id_source = "anthropic", !.model_source = "anthropic",
                    !.usage_style = "snake_case", !.has_service_tier = TRUE,
                    !.has_inference_geo = TRUE, !.has_cache_creation_obj = TRUE]
        forged == [full EXCEPT !.has_inference_geo = FALSE,
                               !.has_cache_creation_obj = FALSE]
    IN  { WithRemaining(full, 2), forged, WithRemaining(forged, 2),
          [WithToolId(Fingerprint("tool"), "bedrock") EXCEPT
              !.msg_id_source = "antigravity", !.model_source = "kiro",
              !.usage_style = "camelCase"],
          [Fingerprint("tool") EXCEPT !.error = "HTTP 500"],
          [Fingerprint("tool") EXCEPT !.error = "not JSON",
              !.has_anthropic_headers = TRUE, !.ratelimit_input_remaining = 2] }

\* What the thinking probe of a detection pass returns in this model.
DetectThinkingFps ==
    LET o == [Fingerprint("thinking") EXCEPT !.msg_id_source = "anthropic",
                 !.model_source = "anthropic", !.has_service_tier = TRUE]
    IN  { [WithThinking(o, 200, FALSE) EXCEPT !.has_inference_geo = TRUE,
                                              !.has_cache_creation_obj = TRUE],
          WithThinking(WithRemaining(o, 1), 0, FALSE),
          WithThinking(Fingerprint("thinking"), 50, FALSE),
          [Fingerprint("thinking") EXCEPT !.error = "timeout"] }

\* What the verifier's probes return inside a detection pass in this model.
DetectShotFps ==
    {fp \in ShotFps : fp.error # "" \/ fp.ratelimit_input_remaining \in {1, 2}}

InitDetect ==
    /\ rounds \in 0..MaxRounds
    /\ fingerprints = <<>>
    /\ pc = (IF rounds = 0 THEN "thinking_probe" ELSE "tool_probe")
    /\ NoFrame
    /\ result = DetectResult("", 0)
    /\ probe_log = <<>>
    /\ RlIdle /\ ScanIdle /\ ProbeIdle

DetectOthers == UNCHANGED <<rounds, models, model_i, available_models, scan,
                            probe_resp, probe_fp, raised>>

\* for i in range(rounds): fp = probe_once(..., "tool"); fingerprints.append(fp)
DetectToolProbe ==
    /\ pc = "tool_probe"
    /\ \E fp \in DetectToolFps :
          /\ fingerprints' = Append(fingerprints, fp)
          /\ probe_log' = Append(probe_log, fp)
    /\ pc' = (IF Len(fingerprints) + 1 < rounds THEN "tool_probe" ELSE "thinking_probe")
    /\ UNCHANGED <<scores, evidence, missing_flags, result, shots, shot_i, samples,
                   rl_result>>
    /\ DetectOthers

\* fp = probe_once(..., "thinking"); fingerprints.append(fp)
DetectThinkingProbe ==
    /\ pc = "thinking_probe"
    /\ \E fp \in DetectThinkingFps :
          /\ fingerprints' = Append(fingerprints, fp)
          /\ probe_log' = Append(probe_log, fp)
    /\ pc' = "check_rl"
    /\ UNCHANGED <<scores, evidence, missing_flags, result, shots, shot_i, samples,
                   rl_result>>
    /\ DetectOthers

\* has_rl: call verify_ratelimit_dynamic(..., shots=4)
DetectStartVerify ==
    /\ pc = "check_rl"
    /\ HasRl(fingerprints)
    /\ shots' = DetectShots /\ shot_i' = 0 /\ samples' = <<>>
    /\ pc' = "rl_loop"
    /\ UNCHANGED <<fingerprints, scores, evidence, missing_flags, result, rl_result,
                   probe_log>>
    /\ DetectOthers

\* not has_rl: rl_result stays None
DetectSkipVerify ==
    /\ pc = "check_rl"
    /\ ~HasRl(fingerprints)
    /\ pc' = "analyze_call"
    /\ UNCHANGED <<fingerprints, scores, evidence, missing_flags, result, shots, shot_i,
                   samples, rl_result, probe_log>>
    /\ DetectOthers

DetectShot == RLShotFrom(DetectShotFps)

\* The exceptions that leave probe_once for some response (lines 333-387).
DetectRaises == {ProbeOnce(r, k).raised : r \in Responses, k \in ProbeTypes} \ {""}

\* The probe_type of the probe_once call at the current position.
DetectProbeKind ==
    CASE pc = "tool_probe" -> "tool"
      [] pc = "thinking_probe" -> "thinking"
      [] OTHER -> "simple"

\* A probe_once call of the pass raises: neither detect_single_model nor
\* verify_ratelimit_dynamic catches anything, so the exception leaves the pass.
\* The call is logged under its probe_type with the exception as its error; it
\* returns no fingerprint.
DetectProbeRaises ==
    /\ \/ pc \in {"tool_probe", "thinking_probe"}
       \/ pc = "rl_loop" /\ shot_i < shots
    /\ \E exc \in DetectRaises :
          /\ raised' = exc
          /\ probe_log' = Append(probe_log,
                                 [Fingerprint(DetectProbeKind) EXCEPT !.error = exc])
    /\ pc' = "aborted"
    /\ UNCHANGED <<fingerprints, scores, evidence, missing_flags, result, shots, shot_i,
                   samples, rl_result, rounds, models, model_i, available_models, scan,
                   probe_resp, probe_fp>>

\* result = analyze(fingerprints, base_url, model)
DetectAnalyze ==
    /\ pc \in {"analyze_call", "rl_return"}
    /\ SetFrame(Analyze(fingerprints, ""))
    /\ pc' = "inject"
    /\ UNCHANGED <<fingerprints, shots, shot_i, samples, rl_result, probe_log>>
    /\ DetectOthers

\* if rl_result: ... ; return result
DetectInject ==
    /\ pc = "inject"
    /\ result' = InjectRatelimit(result, rl_result)
    /\ pc' = "done"
    /\ UNCHANGED <<fingerprints, scores, evidence, missing_flags, shots, shot_i, samples,
                   rl_result, probe_log>>
    /\ DetectOthers

NextDetect ==
    \/ DetectToolProbe \/ DetectThinkingProbe
    \/ DetectStartVerify \/ DetectSkipVerify
    \/ DetectShot \/ RLClassify
    \/ DetectAnalyze \/ DetectInject
    \/ DetectProbeRaises

SpecDetect == InitDetect /\ [][NextDetect]_vars

\* -------------------------------------------------------- scan_all_models
ModelNames == {"m1", "m2"}

\* scan.summary[model] = verdict, on a dict
SetKey(d, k, v) == [x \in (DOMAIN d) \cup {k} |-> IF x = k THEN v ELSE d[x]]

\* Variant of IsMixed that counts unavailable as a verdict.
IsMixedKeepsUnavailable(summary) ==
    Cardinality({summary[m] : m \in DOMAIN summary}) > 1

\* verdicts = set(v for v in scan.summary.values() if v != "unavailable");
\* scan.is_mixed = len(verdicts) > 1
IsMixed(summary) ==
    LET verdicts == {summary[m] : m \in DOMAIN summary} \ {"unavailable"}
    IN  Cardinality(verdicts) > 1

\* platforms = [r.proxy_platform for r in scan.model_results if r.proxy_platform]
ScanPlatform(results) ==
    LET platforms == SelectSeq(results, LAMBDA r : r.proxy_platform # "")
    IN  IF Len(platforms) > 0 THEN platforms[1].proxy_platform ELSE ""

\* What one detection pass of the scan (rounds = 1) receives from its probes in
\* this model: a tool probe, a thinking probe and, when the verifier runs, four
\* shots that all report the same value or a decreasing one; or the fingerprints
\* returned before a probe_once call raises (raised names the exception).
ScanRuns ==
    LET shot(r) == [Fingerprint("simple") EXCEPT !.ratelimit_input_remaining = r,
                                                 !.has_anthropic_headers = TRUE]
        ths == {fp \in DetectThinkingFps :
                   fp.error # "" \/ (fp.thinking_sig_len > 0 /\ fp.has_inference_geo)}
        plat == [WithToolId(Fingerprint("tool"), "vertex") EXCEPT
                    !.proxy_platform = "Aidistri"]
        full == WithRemaining(WithToolId(Fingerprint("tool"), "anthropic"), 2)
    IN  { [fps |-> <<t, th>>, shotfps |-> sh, raised |-> ""] :
              t \in DetectToolFps \cup {plat}, th \in ths,
              sh \in { <<shot(2), shot(2), shot(2), shot(2)>>,
                       <<shot(2), shot(2), shot(1), shot(1)>> } }
        \cup { [fps |-> <<>>, shotfps |-> <<>>, raised |-> "AttributeError"],
               [fps |-> <<plat>>, shotfps |-> <<>>, raised |-> "TypeError"],
               [fps |-> <<full, [Fingerprint("thinking") EXCEPT !.error = "timeout"]>>,
                shotfps |-> <<shot(2)>>, raised |-> "AttributeError"] }

\* What the request of check_model_available meets in this model.
CheckResponses ==
    { Response("error", 0), Response("ok", 500), Response("ok", 200),
      [Response("ok", 200) EXCEPT !.body = Body("object")] }

\* check_model_available: resp.status_code == 200, False on a RequestException
CheckModelAvailable(r) == r.transport # "error" /\ r.status = 200

\* One request of the scan as the log keeps it: the model, the kind of request
\* ("check" for check_model_available, else the probe_type of probe_once), the
\* error it ended with ("" if none) and whether that error was raised to the caller.
Request(model, kind, error, exc) ==
    [model |-> model, request |-> kind, error |-> error, raised |-> exc]

\* The probe_once calls of one detect_single_model(rounds = 1), in issue order.
RunLog(model, run) ==
    LET n == Len(run.fps)
        probes == [i \in 1..n |-> Request(model, run.fps[i].probe_type,
                                          run.fps[i].error, FALSE)]
        verify == n = 2 /\ HasRl(run.fps)
        shotlog == IF verify
                   THEN [i \in 1..Len(run.shotfps) |->
                            Request(model, "simple", run.shotfps[i].error, FALSE)]
                   ELSE <<>>
        kind == IF n = 0 THEN "tool" ELSE IF n = 1 THEN "thinking" ELSE "simple"
    IN  probes \o shotlog
        \o (IF run.raised # "" THEN <<Request(model, kind, run.raised, TRUE)>> ELSE <<>>)

\* Variant of RecordUnavailable that keeps no record of the model.
RecordUnavailableSkips(sc, model) == sc

\* lines 980-982: the record of a model that is not available
RecordUnavailable(sc, model) ==
    [sc EXCEPT !.model_results = Append(@, [DetectResult(model, 0) EXCEPT
                                               !.verdict = "unavailable"]),
               !.summary = SetKey(@, model, "unavailable")]

InitScan ==
    /\ models \in SeqsUpTo(ModelNames, MaxModels)
    /\ model_i = 0
    /\ available_models = <<>>
    /\ scan = ScanResult
    /\ pc = (IF Len(models) = 0 THEN "scan_finish" ELSE "scan_check")
    /\ rounds = 1
    /\ fingerprints = <<>> /\ NoFrame /\ result = DetectResult("", 0)
    /\ probe_log = <<>>
    /\ RlIdle /\ ProbeIdle

ScanOthers == UNCHANGED <<fingerprints, scores, evidence, missing_flags, result, shots,
                          shot_i, samples, rl_result, rounds, models,
                          probe_resp, probe_fp>>

\* for model in models: if check_model_available(...): ... else: ...
ScanCheckAvailable ==
    /\ pc = "scan_check"
    /\ LET model == models[model_i + 1]
           last == model_i + 1 = Len(models)
       IN  \E r \in CheckResponses :
             LET ok == CheckModelAvailable(r) IN
             /\ probe_log' = Append(probe_log,
                    Request(model, "check",
                            IF ok THEN ""
                            ELSE IF r.transport = "error" THEN "RequestException"
                            ELSE "HTTP 500", FALSE))
             /\ available_models' = IF ok THEN Append(available_models, model)
                                    ELSE available_models
             /\ scan' = IF ok THEN scan ELSE RecordUnavailable(scan, model)
             /\ model_i' = IF last THEN 0 ELSE model_i + 1
             /\ pc' = IF ~last THEN "scan_check"
                      ELSE IF Len(available_models') = 0 THEN "scan_finish"
                      ELSE "scan_detect"
    /\ UNCHANGED raised
    /\ ScanOthers

\* for model in available_models: result = detect_single_model(...); ...
ScanDetect ==
    /\ pc = "scan_detect"
    /\ LET model == available_models[model_i + 1]
           last == model_i + 1 = Len(available_models)
       IN  \E run \in ScanRuns :
             LET res == DetectSingleModel(model, run.fps, run.shotfps)
             IN  /\ probe_log' = probe_log \o RunLog(model, run)
                 /\ raised' = run.raised
                 /\ IF run.raised # ""
                    THEN \* the exception leaves detect_single_model and the scan
                         /\ pc' = "aborted"
                         /\ UNCHANGED <<scan, model_i>>
                    ELSE /\ scan' = [scan EXCEPT
                                !.model_results = Append(@, res),
                                !.summary = SetKey(@, model, res.verdict)]
                         /\ model_i' = model_i + 1
                         /\ pc' = IF last THEN "scan_finish" ELSE "scan_detect"
    /\ UNCHANGED available_models
    /\ ScanOthers

\* lines 1010-1019
ScanFinish ==
    /\ pc = "scan_finish"
    /\ scan' = [scan EXCEPT !.is_mixed = IsMixed(scan.summary),
                            !.proxy_platform = ScanPlatform(scan.model_results)]
    /\ pc' = "done"
    /\ UNCHANGED <<model_i, available_models, probe_log, raised>>
    /\ ScanOthers

NextScan == ScanCheckAvailable \/ ScanDetect \/ ScanFinish

SpecScan == InitScan /\ [][NextScan]_vars

\* ------------------------------------------- specification of probe_once
InitProbe ==
    /\ probe_resp \in Responses
    /\ probe_fp \in {Fingerprint(pt) : pt \in ProbeTypes}
    /\ raised = ""
    /\ pc = "probe_send"
    /\ probe_log = <<>>
    /\ DetectIdle /\ RlIdle /\ ScanIdle

ProbeOthers == UNCHANGED <<fingerprints, scores, evidence, missing_flags, result, shots,
                           shot_i, samples, rl_result, rounds, models, model_i,
                           available_models, scan, probe_resp>>

\* The stretch whose outcome is st ends: by a return (the caller receives fp), by
\* an exception leaving probe_once, or at the next stretch.
ProbeGoes(st, next) ==
    /\ probe_fp' = st.fp
    /\ raised' = st.raised
    /\ pc' = IF st.raised # "" THEN "probe_raised"
             ELSE IF st.returned THEN "probe_return" ELSE next
    /\ probe_log' = IF st.raised = "" /\ st.returned THEN Append(probe_log, st.fp)
                    ELSE probe_log
    /\ ProbeOthers

ProbeSend == pc = "probe_send" /\ ProbeGoes(SendStep(probe_fp, probe_resp), "probe_headers")

ProbeHeaders ==
    pc = "probe_headers" /\ ProbeGoes(HeadersStep(probe_fp, probe_resp), "probe_json")

ProbeJson == pc = "probe_json" /\ ProbeGoes(JsonStep(probe_fp, probe_resp), "probe_tool")

ProbeToolId ==
    pc = "probe_tool" /\ ProbeGoes(ToolIdStep(probe_fp, probe_resp), "probe_thinking")

ProbeThinking ==
    pc = "probe_thinking" /\ ProbeGoes(ThinkingStep(probe_fp, probe_resp), "probe_msg")

ProbeMsgId == pc = "probe_msg" /\ ProbeGoes(MsgIdStep(probe_fp, probe_resp), "probe_model")

ProbeModel ==
    pc = "probe_model" /\ ProbeGoes(ModelStep(probe_fp, probe_resp), "probe_usage")

ProbeUsage ==
    pc = "probe_usage" /\ ProbeGoes(UsageStep(probe_fp, probe_resp), "probe_return")

NextProbe ==
    \/ ProbeSend \/ ProbeHeaders \/ ProbeJson \/ ProbeToolId
    \/ ProbeThinking \/ ProbeMsgId \/ ProbeModel \/ ProbeUsage

SpecProbe == InitProbe /\ [][NextProbe]_vars

\* ================================================================ claims
Total(sc) == sc.anthropic + sc.bedrock + sc.antigravity

HasLine(ev, tag) == \E i \in 1..Len(ev) : ev[i].tag = tag

\* A fingerprint on which a feature crediting bedrock or antigravity fires.
CreditsOtherBackend(fp) ==
    \/ fp.tool_id_source \in {"bedrock", "vertex"}
    \/ fp.msg_id_source = "vertex"
    \/ fp.model_source \in {"kiro", "bedrock"}
    \/ fp.usage_style = "camelCase"
    \/ fp.has_aws_headers
    \/ (fp.thinking_supported /\ fp.thinking_sig_class = "vertex")

AllOfficialToolIds ==
    /\ Len(fingerprints) > 0
    /\ \A i \in 1..Len(fingerprints) :
          /\ fingerprints[i].error = ""
          /\ fingerprints[i].tool_id_source = "anthropic"
          /\ ~CreditsOtherBackend(fingerprints[i])
    /\ \E i \in 1..Len(fingerprints) : fingerprints[i].has_inference_geo
    /\ \E i \in 1..Len(fingerprints) : fingerprints[i].has_cache_creation_obj

\* C1: every non-empty set of error-free fingerprints whose tool ids are all
\* toolu_, on which no bedrock or antigravity feature fires, and which shows
\* inference_geo and the cache-creation object on some sample, is judged
\* anthropic with confidence 1.0.
C1_OfficialFullConfidence ==
    (pc = "done" /\ AllOfficialToolIds)
        => (result.verdict = "anthropic" /\ result.confidence = 100)

\* Such a set whose thinking probe has no signature: one field is docked.
C1_Witness ==
    /\ pc = "done" /\ AllOfficialToolIds
    /\ missing_flags = <<"thinking_signature">>
    /\ Len(fingerprints) = 2

\* C2: at total score zero the verdict is unknown with confidence 0 when no
\* field was docked and suspicious with confidence 0 when one was.
C2_ZeroTotalVerdict ==
    (pc = "done" /\ Total(result.scores) = 0)
        => /\ result.confidence = 0
           /\ (missing_flags = <<>> => result.verdict = "unknown")
           /\ (missing_flags # <<>> => result.verdict = "suspicious")

\* Positive official evidence cancelled exactly by the docked fields.
C2_Witness ==
    /\ pc = "done" /\ Total(result.scores) = 0
    /\ Len(missing_flags) >= 1
    /\ \E i \in 1..Len(fingerprints) : fingerprints[i].msg_id_source = "anthropic"

\* The backend the verdict was resolved from: a suspicious verdict replaces an
\* anthropic one.
WinnerOf(res) == IF res.verdict = "suspicious" THEN "anthropic" ELSE res.verdict

\* C3: at positive total the winner's score is strictly higher than the score of
\* each other backend, and the confidence is winner / total rounded to two
\* decimals, within [0, 1].
C3_StrictlyHighestWins ==
    (pc = "done" /\ Total(result.scores) > 0)
        => LET sc == result.scores
               w == WinnerOf(result)
               t == Total(sc)
               d == result.confidence * t - 100 * sc[w]
           IN  /\ \A i \in 1..Len(Backends) :
                     Backends[i] # w => sc[w] > sc[Backends[i]]
               /\ 2 * d <= t /\ -2 * d <= t
               /\ result.confidence \in 0..100

\* anthropic is first among the backends of maximal score
AnthropicWins(sc) == sc.anthropic >= sc.bedrock /\ sc.anthropic >= sc.antigravity

\* C4: at positive total the verdict is suspicious whenever anthropic wins and
\* two or more fields were docked, and it is never suspicious when fewer than
\* two fields were docked.
C4_ForcedSuspicious ==
    (pc = "done" /\ Total(result.scores) > 0)
        => /\ (AnthropicWins(result.scores) /\ Len(missing_flags) >= 2)
                  => result.verdict = "suspicious"
           /\ Len(missing_flags) < 2 => result.verdict # "suspicious"

\* Two fields docked and official score left over.
C4_Witness ==
    /\ pc = "done" /\ Total(result.scores) > 0
    /\ Len(missing_flags) = 2
    /\ result.verdict = "suspicious"

\* An evidence line that names at least one missing official-only field.
NamesMissingField(ev) ==
    \/ \E i \in 1..Len(ev) : ev[i].tag = "suspicious_missing" /\ Len(ev[i].fields) >= 1
    \/ HasLine(ev, "missing_inference_geo")
    \/ HasLine(ev, "missing_cache_creation")
    \/ HasLine(ev, "missing_thinking_sig")

\* C5 as stated: every result of a detection pass whose final verdict is
\* suspicious carries an evidence line naming at least one missing field.
C5_SuspiciousNamesFields ==
    (pc = "done" /\ result.verdict = "suspicious") => NamesMissingField(result.evidence)

\* C5 amended: a verdict that is suspicious when analyze returns carries the
\* line that names at least one missing field; a final suspicious verdict
\* carries that line or, when it comes from the static rate-limit downgrade,
\* the line saying that the rate-limit headers are forged.
C5_SuspiciousHasRationale ==
    /\ (pc = "inject" /\ result.verdict = "suspicious")
          => \E i \in 1..Len(result.evidence) :
                /\ result.evidence[i].tag = "suspicious_missing"
                /\ Len(result.evidence[i].fields) >= 1
                /\ result.evidence[i].fields = missing_flags
    /\ (pc = "done" /\ result.verdict = "suspicious")
          => \/ \E i \in 1..Len(result.evidence) :
                   /\ result.evidence[i].tag = "suspicious_missing"
                   /\ Len(result.evidence[i].fields) >= 1
             \/ /\ HasLine(result.evidence, "rl_static_forged")
                /\ rl_result.verdict = "static"

\* Suspicious through the downgrade alone, with no field missing.
C5_Witness ==
    /\ pc = "done" /\ result.verdict = "suspicious"
    /\ missing_flags = <<>>
    /\ HasLine(result.evidence, "rl_static_forged")
    /\ ~NamesMissingField(result.evidence)

\* C6: with a static verifier verdict the injection turns an anthropic verdict
\* into suspicious and keeps a suspicious one, appending one confirmation line;
\* no returned result is anthropic with ratelimit_dynamic = static.
C6_StaticDowngrades ==
    /\ [](pc = "done" /\ result.ratelimit_dynamic = "static"
             => result.verdict # "anthropic")
    /\ [][(pc = "inject" /\ rl_result.verdict = "static")
             => /\ result.verdict = "anthropic" => result'.verdict = "suspicious"
                /\ result.verdict = "suspicious"
                     => /\ result'.verdict = "suspicious"
                        /\ Len(result'.evidence) = Len(result.evidence) + 2
                        /\ SubSeq(result'.evidence, 1, Len(result.evidence))
                              = result.evidence
                        /\ result'.evidence[Len(result.evidence) + 1].tag = "rl_verify"
                        /\ result'.evidence[Len(result.evidence) + 2].tag
                              = "rl_static_confirms"
                /\ result'.ratelimit_dynamic = "static"]_vars

\* A verdict already suspicious in analyze, confirmed by a static verifier verdict.
C6_Witness ==
    /\ pc = "done" /\ result.ratelimit_dynamic = "static"
    /\ result.verdict = "suspicious"
    /\ HasLine(result.evidence, "rl_static_confirms")
    /\ HasLine(result.evidence, "suspicious_missing")

\* The remaining values of the successful shots, in the order issued.
RECURSIVE Succeeded(_, _)
Succeeded(log, i) ==
    IF i > Len(log) THEN <<>>
    ELSE (IF log[i].error = "" THEN <<log[i].ratelimit_input_remaining>> ELSE <<>>)
         \o Succeeded(log, i + 1)

\* C7: for N >= 2 shots only the successful ones are sampled; the verdict is
\* unavailable iff fewer than 2 succeeded, otherwise static iff all sampled values
\* are identical, otherwise dynamic, a non-increasing sequence reporting the drop
\* first minus last and any other one being flagged non-monotonic.
C7_DynamicsVerdict ==
    (pc = "rl_return" /\ shots >= 2)
        => LET s == Succeeded(probe_log, 1)
               n == Len(s)
               same == \A i, j \in 1..n : s[i] = s[j]
               noninc == \A i, j \in 1..n : i < j => s[i] >= s[j]
           IN  /\ Len(probe_log) = shots
               /\ rl_result.samples = s
               /\ rl_result.verdict = "unavailable" <=> n < 2
               /\ n >= 2 => (rl_result.verdict = "static" <=> same)
               /\ (n >= 2 /\ ~same)
                     => /\ rl_result.verdict = "dynamic"
                        /\ noninc => /\ rl_result.detail.tag = "decreasing"
                                      /\ rl_result.detail.n = s[1] - s[n]
                        /\ ~noninc => rl_result.detail.tag = "non_monotonic"

\* Four shots that count down by one (as 1000, 950, 900, 850 does by 50).
C7_Witness ==
    /\ pc = "rl_return" /\ shots = 4
    /\ rl_result.samples = <<3, 2, 1, 0>>
    /\ rl_result.verdict = "dynamic" /\ rl_result.detail.n = 3

RatelimitVerdicts == {"dynamic", "static", "unavailable"}

SomeValidProbeHasRemaining ==
    \E i \in 1..Len(fingerprints) :
        fingerprints[i].error = "" /\ fingerprints[i].ratelimit_input_remaining > 0

\* C8 as stated: every result of a detection pass has ratelimit_dynamic in
\* dynamic / static / unavailable.
C8_AlwaysFolded ==
    pc = "done" => result.ratelimit_dynamic \in RatelimitVerdicts

\* C8 amended: ratelimit_dynamic is one of dynamic / static / unavailable exactly
\* when some error-free probe of the pass reported a remaining value > 0, and is
\* left empty otherwise.
C8_FoldedWhenVerified ==
    pc = "done"
        => /\ SomeValidProbeHasRemaining
                 => /\ result.ratelimit_dynamic \in RatelimitVerdicts
                    /\ result.ratelimit_dynamic = rl_result.verdict
           /\ ~SomeValidProbeHasRemaining => result.ratelimit_dynamic = ""

\* A pass in which the only rate-limit value came with a failed probe.
C8_Witness ==
    /\ pc = "done" /\ result.ratelimit_dynamic = ""
    /\ ~SomeValidProbeHasRemaining
    /\ \E i \in 1..Len(fingerprints) : fingerprints[i].ratelimit_input_remaining > 0

\* C9: when the scan has finished, is_mixed holds iff two models of the summary
\* have different verdicts, neither of them unavailable.
C9_MixedIffDistinct ==
    pc = "done"
        => (scan.is_mixed <=>
              \E a, b \in DOMAIN scan.summary :
                  /\ scan.summary[a] # scan.summary[b]
                  /\ scan.summary[a] # "unavailable"
                  /\ scan.summary[b] # "unavailable")

\* One model unavailable and the other judged: two values, not mixed.
C9_Witness ==
    /\ pc = "done" /\ ~scan.is_mixed
    /\ \E a, b \in DOMAIN scan.summary :
          scan.summary[a] = "unavailable" /\ scan.summary[b] = "anthropic"

ErrorFree(fps) == SelectSeq(fps, LAMBDA fp : fp.error = "")

\* C10: fingerprints with an error contribute nothing: analyze gives the scores
\* and the verdict it gives on the error-free sub-list; and when every
\* fingerprint has an error the scores are zero, the verdict is unknown and the
\* evidence is the single line "all probes failed".
C10_ErrorsContributeNothing ==
    pc = "done"
        => LET sub == Analyze(ErrorFree(fingerprints), "").result
           IN  /\ result.scores = sub.scores
               /\ result.verdict = sub.verdict
               /\ (\A i \in 1..Len(fingerprints) : fingerprints[i].error # "")
                     => /\ result.scores = ZeroScores
                        /\ result.verdict = "unknown"
                        /\ result.evidence = <<Line("all_failed", 0, <<>>)>>

\* A failed probe that had recorded headers, next to a successful one.
C10_Witness ==
    /\ pc = "done" /\ Len(fingerprints) = 2
    /\ \E i, j \in 1..2 :
          /\ fingerprints[i].error # "" /\ fingerprints[i].has_aws_headers
          /\ fingerprints[j].error = "" /\ fingerprints[j].tool_id_source = "bedrock"
    /\ result.scores.bedrock = 5

\* The response is one that probe_once must report as a failed extraction: a
\* transport failure, a status other than 200, a body that is not JSON, or a JSON
\* body without the message schema (not an object; content, blocks, ids, model or
\* usage of the wrong type).
BadSchema(r) ==
    \/ r.body.json # "object"
    \/ r.body.content.t \in {"null", "string"}
    \/ \E i \in 1..Len(r.body.content.blocks) :
          LET b == r.body.content.blocks[i]
          IN  \/ b.t # "object" \/ b.id \in {"number", "null"}
              \/ b.signature.t \in {"number", "null"}
    \/ r.body.id \in {"number", "null"}
    \/ r.body.model \in {"number", "null"}
    \/ r.body.usage.t \in {"null", "number", "array"}

FailedResponse(r) == r.transport = "error" \/ r.status # 200 \/ BadSchema(r)

\* C11: probe_once never raises, and for a transport failure, a status other than
\* 200, a body that is not JSON or a JSON body without the message schema it
\* returns a Fingerprint whose error is set and whose every feature field
\* (header flags and rate-limit number included) is at its default.
C11_NeverRaisesErrorsAtDefaults ==
    /\ pc # "probe_raised"
    /\ (pc = "probe_return" /\ FailedResponse(probe_resp)) =>
          /\ probe_fp.error # ""
          /\ probe_fp = [Fingerprint(probe_fp.probe_type) EXCEPT !.error = probe_fp.error]

Requested == {models[i] : i \in 1..Len(models)}

\* The requests of the log sent for model m: by check_model_available, by probe_once.
ChecksOf(m) ==
    {i \in 1..Len(probe_log) : probe_log[i].model = m /\ probe_log[i].request = "check"}

ProbesOf(m) ==
    {i \in 1..Len(probe_log) : probe_log[i].model = m /\ probe_log[i].request # "check"}

AllChecksFailed(m) == \A i \in ChecksOf(m) : probe_log[i].error # ""

AllProbesFailed(m) ==
    /\ ProbesOf(m) # {}
    /\ \A i \in ProbesOf(m) : probe_log[i].error # ""

\* Every request so far ended in one of: success, transport error, status other
\* than 200, body that is not JSON (none raised out of probe_once).
OnlyListedOutcomes == \A i \in 1..Len(probe_log) : ~probe_log[i].raised

\* The scan was not aborted and, once returned, holds one result per requested
\* model and a summary entry for each of them and no other.
EveryModelReported ==
    /\ pc # "aborted"
    /\ pc = "done" =>
          /\ Len(scan.model_results) = Len(models)
          /\ DOMAIN scan.summary = Requested
          /\ \A m \in Requested :
                Cardinality({i \in 1..Len(models) : models[i] = m})
                  = Cardinality({i \in 1..Len(scan.model_results) :
                                    scan.model_results[i].model = m})

CreditsOfficial(fp) ==
    \/ fp.tool_id_source = "anthropic" \/ fp.msg_id_source = "anthropic"
    \/ fp.has_service_tier \/ fp.has_inference_geo \/ fp.has_cache_creation_obj
    \/ fp.has_anthropic_headers

\* The fingerprint list of C13: among the error-free fingerprints some feature
\* credits anthropic and none credits another backend, none shows inference_geo,
\* none shows the cache-creation object, and there is a thinking probe and every
\* thinking probe came back with an empty signature.
AllOfficialAllMissing ==
    LET valid == ValidFps(fingerprints)
        V == 1..Len(valid)
    IN  /\ \E i \in V : CreditsOfficial(valid[i])
        /\ \A i \in V : ~CreditsOtherBackend(valid[i])
        /\ \A i \in V : ~valid[i].has_inference_geo /\ ~valid[i].has_cache_creation_obj
        /\ \E i \in V : valid[i].probe_type = "thinking"
        /\ \A i \in V : valid[i].probe_type = "thinking" => valid[i].thinking_sig_len = 0

\* C13 (as stated): for such a list the official score after docking is zero and
\* the verdict is suspicious.
C13_DockedToZero ==
    (pc = "done" /\ AllOfficialAllMissing) =>
        /\ result.scores.anthropic = 0
        /\ result.verdict = "suspicious"

\* C13 (amended): for such a list the docking pass takes 8 from the official score
\* and floors it at zero, leaving the other two at zero, so the official score is
\* zero afterwards only when it was at most 8; the three fields are flagged and the
\* verdict is suspicious in both cases.
C13_DockedByEightSuspicious ==
    /\ []((pc = "done" /\ AllOfficialAllMissing) =>
            /\ result.verdict = "suspicious"
            /\ missing_flags = <<"inference_geo", "cache_creation_obj",
                                 "thinking_signature">>
            /\ result.scores = scores)
    /\ [][(pc = "corrected" /\ AllOfficialAllMissing) =>
            /\ scores'.anthropic = (IF scores.anthropic > 8 THEN scores.anthropic - 8
                                    ELSE 0)
            /\ scores'.bedrock = 0 /\ scores'.antigravity = 0]_vars

C13_Witness ==
    /\ pc = "done" /\ AllOfficialAllMissing
    /\ result.verdict = "suspicious"
    /\ result.scores.anthropic > 0

\* The fingerprint list of C14: among the error-free fingerprints one has a kiro-
\* model and another one a tooluse_ tool id.
KiroAndToolusePair ==
    LET valid == ValidFps(fingerprints)
    IN  \E i, j \in 1..Len(valid) :
            /\ i # j
            /\ valid[i].model_source = "kiro"
            /\ valid[j].tool_id_source = "bedrock"

\* C14 (as stated): for such a list the official score of the final score map is
\* zero.
C14_OfficialScoreZero ==
    (pc = "done" /\ KiroAndToolusePair) => result.scores.anthropic = 0

\* C14 (amended): for such a list the kiro- model and the tooluse_ ids credit
\* bedrock only (8 and 5 each) and stay there -- no tooluse_ point is moved and
\* no dock applies, so the final bedrock score is the sum of the bedrock weights --
\* and the official score is zero exactly when no official feature fires on any
\* error-free fingerprint.
C14_KiroKeepsTooluseInBedrock ==
    (pc = "done" /\ KiroAndToolusePair) =>
        LET valid == ValidFps(fingerprints)
            V == 1..Len(valid)
        IN  /\ result.scores.bedrock =
                    8 * Cardinality({i \in V : valid[i].model_source = "kiro"})
                  + 5 * Cardinality({i \in V : valid[i].tool_id_source = "bedrock"})
                  + 3 * Cardinality({i \in V : valid[i].model_source = "bedrock"})
                  + 2 * Cardinality({i \in V : valid[i].usage_style = "camelCase"})
                  + 3 * Cardinality({i \in V : valid[i].has_aws_headers})
            /\ ~HasLine(result.evidence, "fix_tooluse")
            /\ missing_flags = <<>>
            /\ (result.scores.anthropic = 0) <=> (\A i \in V : ~CreditsOfficial(valid[i]))

C14_Witness ==
    /\ pc = "done" /\ KiroAndToolusePair
    /\ result.scores.antigravity >= 4
    /\ result.scores.bedrock >= 13

\* The list fps reordered by the permutation p of its indices.
Reordered(fps, p) == [i \in 1..Len(fps) |-> fps[p[i]]]

\* C15: the final score map of analyze, tool-id reassignment included, is the
\* same for every permutation of the input fingerprint list.
C15_ScoresOrderIndependent ==
    pc = "done" =>
        \A p \in Permutations(1..Len(fingerprints)) :
            Analyze(Reordered(fingerprints, p), "").result.scores = result.scores

C15_Witness ==
    /\ pc = "done"
    /\ Len(fingerprints) >= 2
    /\ fingerprints[1] # fingerprints[2]
    /\ HasLine(result.evidence, "fix_tooluse")
    /\ fingerprints[1].tool_id_source = "bedrock"
    /\ fingerprints[2].tool_id_source # "bedrock"

\* C16: docking is idempotent: the negative-evidence pass (dock, then clamp)
\* applied a second time to the score map it produced, with the same
\* fingerprints, leaves every backend score unchanged.
C16_DockingIdempotent ==
    pc = "audited" => AuditMissing(fingerprints, Frame).scores = scores

\* What the negative-evidence pass takes from the official score for the
\* error-free fingerprints valid, when it applies.
ExpectedDock(valid) ==
    LET V == 1..Len(valid)
        T == {i \in V : valid[i].probe_type = "thinking"}
    IN  (IF \A i \in V : ~valid[i].has_inference_geo THEN 3 ELSE 0)
      + (IF \A i \in V : ~valid[i].has_cache_creation_obj THEN 2 ELSE 0)
      + (IF T # {} /\ \A i \in T : valid[i].thinking_sig_len = 0 THEN 3 ELSE 0)

\* C17: the negative-evidence pass changes scores only when the official score is
\* positive and both other scores are zero; it then subtracts 3 if no error-free
\* fingerprint has inference_geo, 2 if none has the cache-creation object, 3 if
\* there is a thinking probe and none has a non-empty signature, and nothing for
\* absent rate-limit headers; afterwards every score is at least zero.
C17_DockOnlyOfficialAlone ==
    [][pc = "corrected" =>
        LET applies == /\ scores.anthropic > 0 /\ scores.bedrock = 0
                       /\ scores.antigravity = 0
            docked == scores.anthropic - ExpectedDock(ValidFps(fingerprints))
        IN  /\ scores' = IF applies
                         THEN [scores EXCEPT !.anthropic = IF docked < 0 THEN 0
                                                           ELSE docked]
                         ELSE scores
            /\ \A b \in {"anthropic", "bedrock", "antigravity"} : scores'[b] >= 0]_vars

C17_Witness ==
    /\ pc = "audited"
    /\ Len(missing_flags) = 3
    /\ HasLine(evidence, "ref_no_ratelimit_headers")
    /\ scores.anthropic > 0

\* The points the tooluse_ tool ids earned: 5 for each error-free fingerprint.
TooluseGain == 5 * Cardinality({i \in 1..Len(ValidFps(fingerprints)) :
                                   ValidFps(fingerprints)[i].tool_id_source = "bedrock"})

NoKiroModel == \A i \in 1..Len(ValidFps(fingerprints)) :
                   ValidFps(fingerprints)[i].model_source # "kiro"

\* One run of the corrector, from the scores before it to the scores after it:
\* when fires, gain points go out of the bucket from and into the bucket to;
\* else the scores stay; the evidence says which.
Reassigns(fires, from, to) ==
    /\ scores' = IF fires
                 THEN [scores EXCEPT ![from] = @ - TooluseGain, ![to] = @ + TooluseGain]
                 ELSE scores
    /\ HasLine(evidence', "fix_tooluse") <=> fires

\* C18 (as stated): tool-id reassignment fires exactly when no fingerprint shows
\* the kiro- model, scores['bedrock'] and scores['antigravity'] are both positive
\* and scores['bedrock'] holds at least 4 from features other than tooluse_ ids;
\* it then moves the tooluse_ points from scores['antigravity'] to scores['bedrock'].
C18_MovesIntoBedrock ==
    [][pc = "scored" =>
        Reassigns(/\ NoKiroModel /\ scores.bedrock > 0 /\ scores.antigravity > 0
                  /\ scores.bedrock - TooluseGain >= 4,
                  "antigravity", "bedrock")]_vars

\* C18 (amended): tool-id reassignment fires exactly when no error-free
\* fingerprint shows the kiro- model, scores['bedrock'] and scores['antigravity']
\* are both positive and scores['antigravity'] is at least 4; it then moves the
\* tooluse_ points (5 per tooluse_ id) from scores['bedrock'] to
\* scores['antigravity'].
C18_MovesIntoAntigravity ==
    [][pc = "scored" =>
        Reassigns(/\ NoKiroModel /\ scores.bedrock > 0 /\ scores.antigravity > 0
                  /\ scores.antigravity >= 4,
                  "bedrock", "antigravity")]_vars

C18_Witness ==
    /\ pc = "corrected"
    /\ \E i \in 1..Len(evidence) : evidence[i].tag = "fix_tooluse" /\ evidence[i].n > 0
    /\ scores.bedrock = 0
    /\ scores.antigravity >= 10

\* C19: both ambiguity-corrector rules are idempotent: run again on the score map
\* they produced, with the same fingerprints, they change no backend score.
C19_CorrectorIdempotent ==
    pc = "corrected" => CorrectAmbiguity(fingerprints, Frame).scores = scores

\* The weight table applied to the error-free fingerprints valid.
WeightTable(valid) ==
    LET V == 1..Len(valid)
        N(S) == Cardinality(S)
    IN  [ anthropic |->
              5 * N({i \in V : valid[i].tool_id_source = "anthropic"})
            + 2 * N({i \in V : valid[i].msg_id_source = "anthropic"})
            + 3 * N({i \in V : valid[i].has_service_tier})
            + 2 * N({i \in V : valid[i].has_inference_geo})
            + 1 * N({i \in V : valid[i].has_cache_creation_obj})
            + 2 * N({i \in V : valid[i].has_anthropic_headers}),
          bedrock |->
              5 * N({i \in V : valid[i].tool_id_source = "bedrock"})
            + 8 * N({i \in V : valid[i].model_source = "kiro"})
            + 3 * N({i \in V : valid[i].model_source = "bedrock"})
            + 2 * N({i \in V : valid[i].usage_style = "camelCase"})
            + 3 * N({i \in V : valid[i].has_aws_headers}),
          antigravity |->
              5 * N({i \in V : valid[i].tool_id_source = "vertex"})
            + 6 * N({i \in V : valid[i].msg_id_source = "vertex"})
            + 5 * N({i \in V : /\ valid[i].thinking_supported
                                /\ valid[i].thinking_sig_class = "vertex"}) ]

\* C20: before correction each backend score is the sum, over the error-free
\* fingerprints, of the weights of the features that fire on each of them; a
\* short signature, a msg_<UUID> id and a rewritten tool id add nothing.
C20_ScoresAreWeightSums ==
    pc = "scored" => scores = WeightTable(ValidFps(fingerprints))

C20_Witness ==
    /\ pc = "scored"
    /\ Len(fingerprints) = 2
    /\ fingerprints[1].error = "" /\ fingerprints[2].error = ""
    /\ fingerprints[1].tool_id_source = "anthropic"
    /\ fingerprints[2].tool_id_source = "anthropic"
    /\ fingerprints[2].probe_type = "thinking"
    /\ scores.anthropic >= 10

\* C22: whenever at least one field was docked the bedrock and antigravity scores
\* are both zero; hence every suspicious verdict returned by analyze has score
\* zero in both of these buckets and confidence 0.0 or 1.0, and a verdict whose
\* scores give bedrock or antigravity anything is the plain winner, never
\* suspicious.
C22_SuspiciousOnlyOfficial ==
    /\ Len(missing_flags) >= 1 => scores.bedrock = 0 /\ scores.antigravity = 0
    /\ (pc = "done" /\ result.verdict = "suspicious")
           => /\ result.scores.bedrock = 0 /\ result.scores.antigravity = 0
              /\ result.confidence \in {0, 100}
    /\ (pc = "done" /\ (result.scores.bedrock > 0 \/ result.scores.antigravity > 0))
           => /\ result.verdict = Winner(result.scores)
              /\ missing_flags = <<>>

\* A suspicious verdict that keeps some official score after two fields were
\* docked, returned at full confidence.
C22_Witness ==
    /\ pc = "done" /\ result.verdict = "suspicious"
    /\ Len(missing_flags) >= 2
    /\ result.scores.anthropic > 0
    /\ result.confidence = 100

\* The probe_type that position i of a detection pass is due.
DueKind(i) ==
    IF i <= rounds THEN "tool" ELSE IF i = rounds + 1 THEN "thinking" ELSE "simple"

\* The number of probes of a complete pass whose first probes returned fps.
DueProbes(fps) == rounds + 1 + (IF HasRl(fps) THEN DetectShots ELSE 0)

\* analyze has returned into the pass: it leaves the number of fingerprints it
\* was given, one at least, in the rounds of the result.
AnalysisRan == result.rounds > 0

\* C21: a detection pass with R rounds issues exactly R tool probes, then exactly
\* one thinking probe, whatever each probe's outcome, each probe adding one
\* fingerprint in issue order; the verifier's simple probes, exactly 4, come only
\* after those and only if an error-free fingerprint reported a remaining value
\* > 0; analysis runs exactly once, when every probe due has been issued, and
\* nothing is probed or scored again after it.
C21_ProbeSchedule ==
    /\ [](LET n == Len(probe_log)
              head == SubSeq(probe_log, 1, IF n < rounds + 1 THEN n ELSE rounds + 1)
          IN  /\ \A i \in 1..n : probe_log[i].probe_type = DueKind(i)
              /\ fingerprints = head
              /\ n > rounds + 1 => HasRl(head)
              /\ n <= DueProbes(head)
              /\ pc \in {"done", "aborted"}
                    => /\ n = DueProbes(head)
                       /\ AnalysisRan /\ result.rounds = Len(fingerprints))
    /\ [][/\ (AnalysisRan' /\ ~AnalysisRan)
                 => Len(probe_log) = DueProbes(fingerprints)
          /\ AnalysisRan
                 => UNCHANGED <<fingerprints, probe_log, scores, evidence,
                                missing_flags>>]_vars

====
